---------------------------- MODULE Spec2Model ----------------------------
(***************************************************************************)
(* Resolve .cube LUT codec: read_LUT_ResolveCube and write_LUT_ResolveCube *)
(* of colour/io/luts/resolve_cube.py.                                      *)
(*                                                                         *)
(* Text is a sequence of one-character strings.  A float is an integer     *)
(* count of 10^-ScalarDigits.  An ndarray is [shape, data] with data in    *)
(* C (row-major) order, or [shape, fill] for an array whose elements are   *)
(* all the same scalar.  A file is a sequence of lines [key, args]: key is *)
(* "" for an empty line, "#" for a comment (args: the text after the       *)
(* marker), the first token for a directive, "NUM" for any other first     *)
(* token (args: all the tokens of the line).                               *)
(***************************************************************************)
EXTENDS Integers, Sequences, FiniteSets, TLC

VARIABLES stem, file, arg, argBefore, origin, wstat, decimals, ret, fresh, cycles

vars == <<stem, file, arg, argBefore, origin, wstat, decimals, ret, fresh, cycles>>

---------------------------------------------------------------------------
(* Bounds of the model.                                                    *)

CoarseDecimals == 2

MaxShaperRows == 3

MaxCubeSide == 2

MaxComments == 2

MaxCycles == 1

(* Program constants.                                                      *)

DefaultDecimals == 7

(* The fractional digits a scalar of the model holds: one more than the    *)
(* default precision writes.                                               *)
ScalarDigits == DefaultDecimals + 1

MinSize == 2

MaxShaperSize == 65536

MaxCubeSize == 256

---------------------------------------------------------------------------
(* Integers and fixed-point scalars.                                       *)

RECURSIVE Pow(_, _)
Pow(b, n) == IF n <= 0 THEN 1 ELSE b * Pow(b, n - 1)

Abs(x) == IF x < 0 THEN 0 - x ELSE x

Min(a, b) == IF a < b THEN a ELSE b

Max(a, b) == IF a < b THEN b ELSE a

One == Pow(10, ScalarDigits)

(* Nearest multiple count of q, ties to even, sign kept: the rounding of   *)
(* the fixed-point 'f' presentation type.                                  *)
RoundHalfEven(v, q) ==
    LET a == Abs(v)
        k == a \div q
        r == a % q
        m == IF 2 * r > q \/ (2 * r = q /\ k % 2 = 1) THEN k + 1 ELSE k
    IN  IF v < 0 THEN 0 - m ELSE m

(* '{:0.{d}f}'.format(v): a numeral with exactly d fractional digits,      *)
(* kept as its digit count and its signed integer of 10^-d units.          *)
FormatFloat(v, d) ==
    [d |-> d,
     m |-> IF d >= ScalarDigits THEN v * Pow(10, d - ScalarDigits)
           ELSE RoundHalfEven(v, Pow(10, ScalarDigits - d))]

(* DEFAULT_FLOAT_DTYPE(token): the numeral's value as a float.             *)
ParseFloat(tok) ==
    IF tok.d <= ScalarDigits THEN tok.m * Pow(10, ScalarDigits - tok.d)
    ELSE RoundHalfEven(tok.m * One, Pow(10, tok.d))

parse_array(array) == [i \in 1..Len(array) |-> ParseFloat(array[i])]

---------------------------------------------------------------------------
(* Text.                                                                   *)

SP == " "

QUOTE == "\""

RECURSIVE LStrip(_)
LStrip(s) == IF Len(s) > 0 /\ Head(s) = SP THEN LStrip(Tail(s)) ELSE s

RECURSIVE RStrip(_)
RStrip(s) ==
    IF Len(s) > 0 /\ s[Len(s)] = SP THEN RStrip(SubSeq(s, 1, Len(s) - 1)) ELSE s

Strip(s) == RStrip(LStrip(s))

(* str.split(): the maximal runs of non-blank characters.                  *)
RECURSIVE SplitFrom(_, _, _)
SplitFrom(s, cur, acc) ==
    IF Len(s) = 0 THEN (IF Len(cur) > 0 THEN Append(acc, cur) ELSE acc)
    ELSE IF Head(s) = SP
         THEN SplitFrom(Tail(s), << >>, IF Len(cur) > 0 THEN Append(acc, cur) ELSE acc)
         ELSE SplitFrom(Tail(s), Append(cur, Head(s)), acc)

Split(s) == SplitFrom(s, << >>, << >>)

(* ' '.join(tokens)                                                        *)
RECURSIVE Join(_)
Join(tokens) ==
    IF Len(tokens) = 0 THEN << >>
    ELSE IF Len(tokens) = 1 THEN tokens[1]
    ELSE tokens[1] \o <<SP>> \o Join(Tail(tokens))

(* s[1:-1]                                                                 *)
Unquote(s) == SubSeq(s, 2, Len(s) - 1)

(* re.sub('_|-|\.', ' ', s)                                                *)
NormaliseStem(s) ==
    [i \in 1..Len(s) |-> IF s[i] \in {"_", "-", "."} THEN SP ELSE s[i]]

ShaperSuffix == <<" ", "-", " ", "S", "h", "a", "p", "e", "r">>

CubeSuffix == <<" ", "-", " ", "C", "u", "b", "e">>

RECURSIVE Concat(_)
Concat(ss) == IF Len(ss) = 0 THEN << >> ELSE Head(ss) \o Concat(Tail(ss))

---------------------------------------------------------------------------
(* ndarray.                                                                *)

RECURSIVE Product(_)
Product(shape) == IF Len(shape) = 0 THEN 1 ELSE Head(shape) * Product(Tail(shape))

IsFull(A) == "fill" \in DOMAIN A

ArraySize(A) == Product(A.shape)

(* Offset of a multi-index in C order (last axis fastest).                 *)
RECURSIVE IndexC(_, _)
IndexC(shape, idx) ==
    IF Len(shape) = 0 THEN 0
    ELSE idx[1] * Product(Tail(shape)) + IndexC(Tail(shape), Tail(idx))

(* Offset of a multi-index in Fortran order (first axis fastest).          *)
RECURSIVE IndexF(_, _)
IndexF(shape, idx) ==
    IF Len(shape) = 0 THEN 0
    ELSE idx[1] + shape[1] * IndexF(Tail(shape), Tail(idx))

RECURSIVE UnravelC(_, _)
UnravelC(shape, k) ==
    IF Len(shape) = 0 THEN << >>
    ELSE <<k \div Product(Tail(shape))>>
         \o UnravelC(Tail(shape), k % Product(Tail(shape)))

RECURSIVE UnravelF(_, _)
UnravelF(shape, k) ==
    IF Len(shape) = 0 THEN << >>
    ELSE <<k % shape[1]>> \o UnravelF(Tail(shape), k \div shape[1])

At(A, idx) == IF IsFull(A) THEN A.fill ELSE A.data[1 + IndexC(A.shape, idx)]

Elements(A) ==
    IF IsFull(A) THEN (IF ArraySize(A) > 0 THEN {A.fill} ELSE {})
    ELSE {A.data[i] : i \in 1..Len(A.data)}

(* ndarray.reshape(shape, order='C'): the elements are read and placed     *)
(* last axis fastest.                                                      *)
ReshapeC(A, shape) ==
    IF IsFull(A) THEN [shape |-> shape, fill |-> A.fill]
    ELSE [shape |-> shape, data |-> A.data]

(* ndarray.reshape(shape, order='F'): the elements are read first axis     *)
(* fastest and placed first axis fastest.                                  *)
ReshapeF(A, shape) ==
    IF IsFull(A) THEN [shape |-> shape, fill |-> A.fill]
    ELSE [shape |-> shape,
          data |-> [p \in 1..Product(shape) |->
                      A.data[1 + IndexC(A.shape,
                                 UnravelF(A.shape,
                                     IndexF(shape, UnravelC(shape, p - 1))))]]]

(* np.asarray(rows) for a list of equally long 1-D arrays.                 *)
AsArray(rows) ==
    IF Len(rows) = 0 THEN [shape |-> <<0>>, data |-> << >>]
    ELSE [shape |-> <<Len(rows), Len(rows[1])>>, data |-> Concat(rows)]

RowLen(A) == Product(Tail(A.shape))

(* Python slice bound: negative counts from the end, clamped to the axis.  *)
SliceBound(n, len) == IF n < 0 THEN Max(len + n, 0) ELSE Min(n, len)

(* A[:n]                                                                   *)
SliceTo(A, n) ==
    LET k == SliceBound(n, A.shape[1])
    IN  [shape |-> <<k>> \o Tail(A.shape),
         data |-> SubSeq(A.data, 1, k * RowLen(A))]

(* A[n:]                                                                   *)
SliceFrom(A, n) ==
    LET k == SliceBound(n, A.shape[1])
    IN  [shape |-> <<A.shape[1] - k>> \o Tail(A.shape),
         data |-> SubSeq(A.data, k * RowLen(A) + 1, Len(A.data))]

(* A[i], 0-based, of a 2-D array.                                          *)
Row(A, i) == [c \in 1..A.shape[2] |-> At(A, <<i, c - 1>>)]

(* tstack([a, a, a]) of a 1-D array a.                                     *)
tstack3(a) ==
    IF IsFull(a) THEN [shape |-> a.shape \o <<3>>, fill |-> a.fill]
    ELSE [shape |-> a.shape \o <<3>>,
          data |-> [p \in 1..(3 * Len(a.data)) |-> a.data[1 + ((p - 1) \div 3)]]]

---------------------------------------------------------------------------
(* The LUT classes the codec builds and inspects.                          *)

default_domain == [shape |-> <<2, 3>>, data |-> <<0, 0, 0, One, One, One>>]

None == [kind |-> "None"]

(* LUT2D(): the shaper slot before anything is assigned to it.             *)
NewLUT2D ==
    [kind |-> "LUT2D", name |-> << >>, domain |-> default_domain,
     comments |-> << >>, table |-> [shape |-> <<0, 3>>, data |-> << >>]]

(* LUT3D(): the cube slot before anything is assigned to it.               *)
NewLUT3D ==
    [kind |-> "LUT3D", name |-> << >>, domain |-> default_domain,
     comments |-> << >>, table |-> [shape |-> <<0, 0, 0, 3>>, data |-> << >>]]

LUTSequence(a, b) == [kind |-> "LUTSequence", stages |-> <<a, b>>]

(* LUT.size: the length of the table's first axis.                         *)
Size(L) == L.table.shape[1]

(* LUT1D.as_LUT(LUT2D): the same curve on each of the three channels.      *)
as_LUT2D(L) ==
    [kind |-> "LUT2D", name |-> L.name, domain |-> tstack3(L.domain),
     comments |-> L.comments, table |-> tstack3(L.table)]

---------------------------------------------------------------------------
(* read_LUT_ResolveCube                                                    *)

ReadStart(path) ==
    [title |-> NormaliseStem(path), size2D |-> 2, size3D |-> 2,
     table |-> << >>, comments |-> << >>, has_2D |-> FALSE, has_3D |-> FALSE,
     domain2D |-> default_domain, domain3D |-> default_domain]

(* One pass of the loop over the lines of the file.                        *)
ReadLineMutHeaderOnly(st, line) ==
    CASE line.key = "" -> st
      [] line.key = "#" ->
            [st EXCEPT !.comments = Append(@, Strip(line.args))]
      [] line.key = "TITLE" ->
            [st EXCEPT !.title = Unquote(Join(Split(line.args)))]
      [] line.key = "LUT_1D_INPUT_RANGE" ->
            [st EXCEPT !.domain2D =
                tstack3([shape |-> <<Len(line.args)>>, data |-> parse_array(line.args)])]
      [] line.key = "LUT_3D_INPUT_RANGE" ->
            [st EXCEPT !.domain3D =
                tstack3([shape |-> <<Len(line.args)>>, data |-> parse_array(line.args)])]
      [] line.key = "LUT_1D_SIZE" ->
            [st EXCEPT !.has_2D = (Len(st.table) = 0), !.size2D = line.args[1]]
      [] line.key = "LUT_3D_SIZE" ->
            [st EXCEPT !.has_3D = (Len(st.table) = 0), !.size3D = line.args[1]]
      [] OTHER ->
            [st EXCEPT !.table = Append(@, parse_array(line.args))]

ReadLine(st, line) ==
    CASE line.key = "" -> st
      [] line.key = "#" ->
            [st EXCEPT !.comments = Append(@, Strip(line.args))]
      [] line.key = "TITLE" ->
            [st EXCEPT !.title = Unquote(Join(Split(line.args)))]
      [] line.key = "LUT_1D_INPUT_RANGE" ->
            [st EXCEPT !.domain2D =
                tstack3([shape |-> <<Len(line.args)>>, data |-> parse_array(line.args)])]
      [] line.key = "LUT_3D_INPUT_RANGE" ->
            [st EXCEPT !.domain3D =
                tstack3([shape |-> <<Len(line.args)>>, data |-> parse_array(line.args)])]
      [] line.key = "LUT_1D_SIZE" ->
            [st EXCEPT !.has_2D = TRUE, !.size2D = line.args[1]]
      [] line.key = "LUT_3D_SIZE" ->
            [st EXCEPT !.has_3D = TRUE, !.size3D = line.args[1]]
      [] OTHER ->
            [st EXCEPT !.table = Append(@, parse_array(line.args))]

RECURSIVE ReadLines(_, _)
ReadLines(lines, st) ==
    IF Len(lines) = 0 THEN st ELSE ReadLines(Tail(lines), ReadLine(st, Head(lines)))

Returned(v) == [status |-> "returned", value |-> v]

Raised(e) == [status |-> e, value |-> None]

(* The cube stage's table: the rows reshaped first axis fastest.           *)
CubeTable(rows, size3D) == ReshapeF(rows, <<size3D, size3D, size3D, 3>>)

(* The combined branch's stages.                                           *)
CombinedStagesMutComments(st, table) ==
    <<[NewLUT2D EXCEPT !.name = st.title \o ShaperSuffix,
                       !.domain = st.domain2D,
                       !.comments = st.comments,
                       !.table = SliceTo(table, st.size2D)],
      [NewLUT3D EXCEPT !.name = st.title \o CubeSuffix,
                       !.domain = st.domain3D,
                       !.comments = << >>,
                       !.table = CubeTable(SliceFrom(table, st.size2D), st.size3D)]>>

CombinedStages(st, table) ==
    <<[NewLUT2D EXCEPT !.name = st.title \o ShaperSuffix,
                       !.domain = st.domain2D,
                       !.table = SliceTo(table, st.size2D)],
      [NewLUT3D EXCEPT !.name = st.title \o CubeSuffix,
                       !.domain = st.domain3D,
                       !.comments = st.comments,
                       !.table = CubeTable(SliceFrom(table, st.size2D), st.size3D)]>>

(* The branches after the loop; a reshape of the wrong number of elements  *)
(* raises ValueError, and no branch taken returns None.                    *)
Classify(st) ==
    LET table == AsArray(st.table)
        cells == 3 * st.size3D * st.size3D * st.size3D
    IN  IF st.has_2D /\ st.has_3D
        THEN IF ArraySize(SliceFrom(table, st.size2D)) # cells
             THEN Raised("ValueError")
             ELSE Returned([kind |-> "LUTSequence", stages |-> CombinedStages(st, table)])
        ELSE IF st.has_2D
        THEN Returned([NewLUT2D EXCEPT !.name = st.title,
                                       !.domain = st.domain2D,
                                       !.comments = st.comments,
                                       !.table = table])
        ELSE IF st.has_3D
        THEN IF ArraySize(table) # cells THEN Raised("ValueError")
             ELSE Returned([NewLUT3D EXCEPT !.name = st.title,
                                            !.domain = st.domain3D,
                                            !.comments = st.comments,
                                            !.table = CubeTable(table, st.size3D)])
        ELSE Returned(None)

read_LUT_ResolveCube(path, lines) == Classify(ReadLines(lines, ReadStart(path)))

---------------------------------------------------------------------------
(* write_LUT_ResolveCube                                                   *)

IsShaperKind(L) == L.kind \in {"LUT1D", "LUT2D"}

(* The dispatch on the type of LUT: the caller's object after it, the      *)
(* local two-stage LUT, the flags and the name; ok is FALSE where an       *)
(* assertion of the dispatch fails.                                        *)
Normalise(LUT) ==
    CASE LUT.kind = "LUTSequence" ->
            IF Len(LUT.stages) = 2 /\ IsShaperKind(LUT.stages[1])
               /\ LUT.stages[2].kind = "LUT3D"
            THEN LET seq == IF LUT.stages[1].kind = "LUT1D"
                            THEN [LUT EXCEPT !.stages[1] = as_LUT2D(@)]
                            ELSE LUT
                 IN  [ok |-> TRUE, caller |-> seq, LUT |-> seq.stages,
                      has_2D |-> TRUE, has_3D |-> TRUE, name |-> LUT.stages[2].name]
            ELSE [ok |-> FALSE, caller |-> LUT]
      [] LUT.kind = "LUT1D" ->
            [ok |-> TRUE, caller |-> LUT, LUT |-> <<as_LUT2D(LUT), NewLUT3D>>,
             has_2D |-> TRUE, has_3D |-> FALSE, name |-> LUT.name]
      [] LUT.kind = "LUT2D" ->
            [ok |-> TRUE, caller |-> LUT, LUT |-> <<LUT, NewLUT3D>>,
             has_2D |-> TRUE, has_3D |-> FALSE, name |-> LUT.name]
      [] LUT.kind = "LUT3D" ->
            [ok |-> TRUE, caller |-> LUT, LUT |-> <<NewLUT2D, LUT>>,
             has_2D |-> FALSE, has_3D |-> TRUE, name |-> LUT.name]
      [] OTHER -> [ok |-> FALSE, caller |-> LUT]

(* len(np.unique(domain)) == 2 of both stages.                             *)
DomainsValid(n) ==
    /\ Cardinality(Elements(n.LUT[1].domain)) = 2
    /\ Cardinality(Elements(n.LUT[2].domain)) = 2

(* The size assertions, each under its stage's flag.                       *)
SizesValidMutCubeBound(n) ==
    /\ n.has_2D => (MinSize <= Size(n.LUT[1]) /\ Size(n.LUT[1]) <= MaxShaperSize)
    /\ n.has_3D => (MinSize <= Size(n.LUT[2]) /\ Size(n.LUT[2]) < MaxCubeSize)

SizesValid(n) ==
    /\ n.has_2D => (MinSize <= Size(n.LUT[1]) /\ Size(n.LUT[1]) <= MaxShaperSize)
    /\ n.has_3D => (MinSize <= Size(n.LUT[2]) /\ Size(n.LUT[2]) <= MaxCubeSize)

format_array(array, d) ==
    <<FormatFloat(array[1], d), FormatFloat(array[2], d), FormatFloat(array[3], d)>>

format_tuple(array, d) == <<FormatFloat(array[1], d), FormatFloat(array[2], d)>>

Line(key, args) == [key |-> key, args |-> args]

TitleLineMutNoQuotes(name) == Line("TITLE", name)

TitleLine(name) == Line("TITLE", <<QUOTE>> \o name \o <<QUOTE>>)

CommentLines(comments) ==
    [i \in 1..Len(comments) |-> Line("#", <<SP>> \o comments[i])]

(* A size line and, for a domain other than the default, a range line.     *)
HeaderLinesMutNoRange(L, sizeKey, rangeKey, d) == <<Line(sizeKey, <<L.table.shape[1]>>)>>

HeaderLines(L, sizeKey, rangeKey, d) ==
    <<Line(sizeKey, <<L.table.shape[1]>>)>>
    \o (IF L.domain # default_domain
        THEN <<Line(rangeKey,
                    format_tuple(<<At(L.domain, <<0, 0>>), At(L.domain, <<1, 0>>)>>, d))>>
        ELSE << >>)

(* for row in table: one line per row; the rows of an array of one fill    *)
(* value are all the same line, kept once with their number.               *)
RowLines(table, d) ==
    IF IsFull(table)
    THEN (IF table.shape[1] = 0 THEN << >>
          ELSE <<[key |-> "NUM",
                  args |-> format_array(<<table.fill, table.fill, table.fill>>, d),
                  times |-> table.shape[1]]>>)
    ELSE [i \in 1..table.shape[1] |-> Line("NUM", format_array(Row(table, i - 1), d))]

(* LUT[1].table.reshape([-1, 3], order='F')                                *)
CubeRowsMutC(table) == ReshapeC(table, <<ArraySize(table) \div 3, 3>>)

CubeRows(table) == ReshapeF(table, <<ArraySize(table) \div 3, 3>>)

(* The lines written under the open file.                                  *)
WrittenMutCommentsLast(n, d) ==
    <<TitleLine(n.name)>>
    \o (IF n.has_2D THEN HeaderLines(n.LUT[1], "LUT_1D_SIZE", "LUT_1D_INPUT_RANGE", d)
        ELSE << >>)
    \o (IF n.has_3D THEN HeaderLines(n.LUT[2], "LUT_3D_SIZE", "LUT_3D_INPUT_RANGE", d)
        ELSE << >>)
    \o (IF n.has_2D THEN RowLines(n.LUT[1].table, d) \o <<Line("", << >>)>> ELSE << >>)
    \o (IF n.has_3D THEN RowLines(CubeRows(n.LUT[2].table), d) ELSE << >>)
    \o CommentLines(n.LUT[1].comments)
    \o CommentLines(n.LUT[2].comments)

Written(n, d) ==
    <<TitleLine(n.name)>>
    \o CommentLines(n.LUT[1].comments)
    \o CommentLines(n.LUT[2].comments)
    \o (IF n.has_2D THEN HeaderLines(n.LUT[1], "LUT_1D_SIZE", "LUT_1D_INPUT_RANGE", d)
        ELSE << >>)
    \o (IF n.has_3D THEN HeaderLines(n.LUT[2], "LUT_3D_SIZE", "LUT_3D_INPUT_RANGE", d)
        ELSE << >>)
    \o (IF n.has_2D THEN RowLines(n.LUT[1].table, d) \o <<Line("", << >>)>> ELSE << >>)
    \o (IF n.has_3D THEN RowLines(CubeRows(n.LUT[2].table), d) ELSE << >>)

(* The call: its outcome, the caller's object after it and the file after  *)
(* it (old is the file before; it is opened only once the assertions have  *)
(* passed).                                                                *)
write_LUT_ResolveCube(LUT, old, d) ==
    LET n == Normalise(LUT)
    IN  IF n.ok /\ DomainsValid(n) /\ SizesValid(n)
        THEN [status |-> "ok", caller |-> n.caller, file |-> Written(n, d)]
        ELSE [status |-> "AssertionError", caller |-> n.caller, file |-> old]

---------------------------------------------------------------------------
(* The inputs of the model: the LUT objects a caller builds and the files  *)
(* a caller supplies.                                                      *)

(* Scalars: multiples of 1/4, exact at every precision written, and        *)
(* (p = 1) the same plus 1/3, which no written precision holds exactly.    *)
Val(k, p) == k * (One \div 4) + p * (One \div 3)

RECURSIVE SeqsUpTo(_, _)
SeqsUpTo(S, n) ==
    IF n = 0 THEN {<< >>}
    ELSE LET shorter == SeqsUpTo(S, n - 1)
         IN  shorter \cup {Append(q, x) : q \in {t \in shorter : Len(t) = n - 1}, x \in S}

CommentTexts == {<<"a">>, <<"b", " ", "c">>, <<" ", "d">>}

TrimmedTexts == {<<"a">>, <<"b", " ", "c">>}

(* The first k of a stage's numbered comments.                             *)
Digits == <<"1", "2", "3", "4", "5", "6", "7", "8", "9">>

Numbered(tag, k) == [i \in 1..k |-> <<tag, SP, Digits[i]>>]

Names == {<<"M", "y", " ", "L", "U", "T">>}

Broadcast(lo, hi) == [shape |-> <<2, 3>>, data |-> <<lo, lo, lo, hi, hi, hi>>]

RectilinearDomains ==
    {default_domain, Broadcast(0 - (One \div 10), 3 * One), Broadcast(0, One + 1)}

Domains ==
    RectilinearDomains
    \cup {[shape |-> <<2, 3>>, data |-> <<0, 0, One, One, One, 0>>], Broadcast(0, 0)}

ShaperTable(n, p) ==
    AsArray([i \in 1..n |-> <<Val(i, p), Val(i + 1, p), Val(2 * i, p)>>])

(* The cube whose cell (r, g, b) holds its own coordinates.                *)
CubeGrid(s, p) ==
    [shape |-> <<s, s, s, 3>>,
     data |-> [k \in 1..(3 * s * s * s) |->
                 Val(UnravelC(<<s, s, s, 3>>, k - 1)[1 + ((k - 1) % 3)], p)]]

LUT2Ds ==
    {[kind |-> "LUT2D", name |-> nm, domain |-> dm, comments |-> cs,
      table |-> ShaperTable(n, p)] :
        nm \in Names, dm \in Domains, cs \in SeqsUpTo(CommentTexts, MaxComments),
        n \in 1..MaxShaperRows, p \in {0, 1}}

(* A domain other than the default goes with no comments.                 *)
DomainsWith(cs, all) == IF cs = << >> THEN all ELSE {default_domain}

LUT3Ds ==
    UNION {{[kind |-> "LUT3D", name |-> nm, domain |-> dm, comments |-> cs,
             table |-> CubeGrid(s, p)] :
               nm \in Names, dm \in DomainsWith(cs, Domains),
               s \in 1..MaxCubeSide, p \in {0, 1}} :
            cs \in SeqsUpTo(CommentTexts, MaxComments)}

LUT1Ds ==
    {[kind |-> "LUT1D", name |-> <<"A">>,
      domain |-> [shape |-> <<2>>, data |-> dm], comments |-> cs,
      table |-> [shape |-> <<n>>, data |-> [i \in 1..n |-> Val(i, 1)]]] :
        dm \in {<<0, One>>, <<0, 0>>}, cs \in {<< >>, <<<<"a">>>>},
        n \in {1, MaxShaperRows}}

StageShapers ==
    LUT1Ds
    \cup UNION {{[kind |-> "LUT2D", name |-> <<"S">>, domain |-> dm,
                  comments |-> Numbered("s", k), table |-> ShaperTable(n, 1)] :
                    dm \in DomainsWith(Numbered("s", k),
                                       {default_domain, Broadcast(0, 3 * One)}),
                    n \in {1, MaxShaperRows}} : k \in 0..MaxComments}

StageCubes ==
    UNION {{[kind |-> "LUT3D", name |-> <<"C">>, domain |-> dm,
             comments |-> Numbered("c", k), table |-> CubeGrid(s, 1)] :
               dm \in DomainsWith(Numbered("c", k),
                                  {default_domain, Broadcast(0, 3 * One)}),
               s \in 1..MaxCubeSide} : k \in 0..MaxComments}

LUTSequences ==
    {LUTSequence(a, b) : a \in StageShapers, b \in StageCubes}

Unsupported ==
    {None,
     [kind |-> "LUTSequence", stages |-> <<CHOOSE c \in StageCubes : TRUE>>],
     LUTSequence(CHOOSE c \in StageCubes : TRUE, CHOOSE c \in StageCubes : TRUE)}

GivenLUTs == LUT1Ds \cup LUT2Ds \cup LUT3Ds \cup LUTSequences \cup Unsupported

(* Files: a block of directives placed before, inside or after the data    *)
(* rows, and the comments after the first one at the end of the file.      *)
Numeral(v) == [d |-> ScalarDigits, m |-> v]

DataRow(i) == Line("NUM", <<Numeral(Val(i, 1)), Numeral(Val(i + 1, 1)), Numeral(Val(2 * i, 1))>>)

(* The text after the marker of the file's i-th comment: one blank before *)
(* it, or two before and one after.                                        *)
RawComment(i) ==
    IF i % 2 = 1 THEN <<SP, "a", Digits[i]>> ELSE <<SP, SP, "c", Digits[i], SP>>

RawComments(k) == [i \in 1..k |-> RawComment(i)]

Stems == <<<<"m", "y", "_", "l", "u", "t">>, <<"a", ".", "b", "-", "c">>>>

GivenTitle == <<TitleLine(<<"T", " ", " ", "x", " ">>)>>

RangeLines(rg) ==
    CASE rg = 1 -> <<Line("LUT_1D_INPUT_RANGE", <<Numeral(0 - (One \div 10)), Numeral(3 * One)>>),
                     Line("LUT_3D_INPUT_RANGE", <<Numeral(0), Numeral(One + 1)>>)>>
      [] rg = 2 -> <<Line("LUT_3D_INPUT_RANGE", <<Numeral(0), Numeral(0)>>)>>
      [] OTHER -> << >>

SizeLines(n1, s3, swap) ==
    LET a == IF n1 > 0 THEN <<Line("LUT_1D_SIZE", <<n1>>)>> ELSE << >>
        b == IF s3 > 0 THEN <<Line("LUT_3D_SIZE", <<s3>>)>> ELSE << >>
    IN  IF swap THEN b \o a ELSE a \o b

RowsNeeded(n1, s3) == n1 + s3 * s3 * s3

RowCounts(n1, s3) ==
    IF n1 = 0 /\ s3 = 0 THEN {0, 2}
    ELSE {m \in {RowsNeeded(n1, s3) - 1, RowsNeeded(n1, s3), RowsNeeded(n1, s3) + 1} : m >= 0}

GivenFile(title, cs, n1, s3, swap, rg, m, pos) ==
    LET rows == [i \in 1..m |-> DataRow(i)]
        block == title
                 \o (IF Len(cs) > 0 THEN <<Line("#", cs[1])>> ELSE << >>)
                 \o SizeLines(n1, s3, swap) \o <<Line("", << >>)>> \o RangeLines(rg)
        rest == [i \in 1..(Len(cs) - 1) |-> Line("#", cs[i + 1])]
    IN  SubSeq(rows, 1, pos) \o block \o SubSeq(rows, pos + 1, m) \o rest

(* The layouts: every comment list under the file's own name, and two     *)
(* more with a title, ranges and the size lines in either order.           *)
Layouts ==
    {[stem |-> Stems[1], title |-> << >>, cs |-> RawComments(k), swap |-> FALSE,
      rg |-> 0] : k \in 0..MaxComments}
    \cup {[stem |-> Stems[1], title |-> GivenTitle, cs |-> <<<<" ", "a">>, <<"b">>>>,
           swap |-> TRUE, rg |-> 1],
          [stem |-> Stems[2], title |-> << >>, cs |-> <<<<"b">>>>,
           swap |-> FALSE, rg |-> 2]}

FilesFor(n1, s3) ==
    UNION {{[stem |-> y.stem,
             lines |-> GivenFile(y.title, y.cs, n1, s3, y.swap, y.rg, m, pos)] :
              y \in Layouts, pos \in {0, m \div 2, m}} : m \in RowCounts(n1, s3)}

GivenFiles == UNION {FilesFor(n1, s3) : n1 \in 0..MaxShaperRows, s3 \in 0..MaxCubeSide}

(* Tables of one fill value, of the sizes around the limits.               *)
FullShaper(n, v) == [shape |-> <<n, 3>>, fill |-> v]

FullCube(s, v) == [shape |-> <<s, s, s, 3>>, fill |-> v]

ShaperSizes == {0, MinSize - 1, MinSize, MaxShaperSize - 1, MaxShaperSize, MaxShaperSize + 1}

CubeSizes == {0, MinSize - 1, MinSize, MaxCubeSize - 1, MaxCubeSize, MaxCubeSize + 1}

SizedShapers ==
    {[kind |-> "LUT2D", name |-> <<"S">>, domain |-> dm, comments |-> cs,
      table |-> FullShaper(n, v)] :
        dm \in {default_domain, Broadcast(0, 3 * One), Broadcast(0, 0)},
        cs \in SeqsUpTo(TrimmedTexts, 1), n \in ShaperSizes, v \in {0, One \div 3}}
    \cup {[kind |-> "LUT1D", name |-> <<"S">>,
           domain |-> [shape |-> <<2>>, data |-> <<0, One>>], comments |-> << >>,
           table |-> [shape |-> <<n>>, fill |-> 0]] : n \in ShaperSizes}

SizedCubes ==
    {[kind |-> "LUT3D", name |-> <<"C">>, domain |-> dm, comments |-> cs,
      table |-> FullCube(s, v)] :
        dm \in {default_domain, Broadcast(0, 3 * One), Broadcast(0, 0)},
        cs \in SeqsUpTo(TrimmedTexts, 1), s \in CubeSizes, v \in {0, One \div 3}}

SizedLUTs ==
    SizedShapers \cup SizedCubes
    \cup {LUTSequence(a, b) :
            a \in {x \in SizedShapers : x.comments = << >> /\ x.table.fill = 0},
            b \in {x \in SizedCubes : x.comments = << >> /\ x.table.fill = 0}}

---------------------------------------------------------------------------
(* The calls.  stem is the file's base name without its extension, file    *)
(* its lines, arg the caller's LUT object, ret what the last read gave;    *)
(* argBefore, origin, wstat, decimals, fresh and cycles record the calls   *)
(* made: the object passed to the last write, whether arg came from a      *)
(* read, the last write's outcome and precision, whether ret is the read   *)
(* of the file as it is now, and the number of results passed on.          *)

Start(f, L, nm) ==
    /\ stem = nm
    /\ file = f
    /\ arg = L
    /\ argBefore = L
    /\ origin = "caller"
    /\ wstat = "none"
    /\ decimals = DefaultDecimals
    /\ ret = Raised("none")
    /\ fresh = FALSE
    /\ cycles = 0

Init ==
    \/ \E f \in GivenFiles : Start(f.lines, None, f.stem)
    \/ \E L \in GivenLUTs : Start(<< >>, L, Stems[1])

InitSizes == \E L \in SizedLUTs : Start(<< >>, L, Stems[1])

(* write_LUT_ResolveCube(arg, path, d)                                     *)
Write ==
    \E d \in {DefaultDecimals, CoarseDecimals} :
        \E w \in {write_LUT_ResolveCube(arg, file, d)} :
            /\ argBefore' = arg
            /\ arg' = w.caller
            /\ wstat' = w.status
            /\ file' = w.file
            /\ decimals' = d
            /\ fresh' = (fresh /\ w.status # "ok")
            /\ UNCHANGED <<stem, origin, ret, cycles>>

(* ret = read_LUT_ResolveCube(path)                                        *)
Read ==
    /\ ret' = read_LUT_ResolveCube(stem, file)
    /\ fresh' = TRUE
    /\ UNCHANGED <<stem, file, arg, argBefore, origin, wstat, decimals, cycles>>

(* The caller takes what the read returned as the LUT of its next write.   *)
PassResult ==
    /\ cycles < MaxCycles
    /\ fresh
    /\ ret.status = "returned"
    /\ arg' = ret.value
    /\ argBefore' = ret.value
    /\ origin' = "read"
    /\ wstat' = "none"
    /\ cycles' = cycles + 1
    /\ UNCHANGED <<stem, file, decimals, ret, fresh>>

Next == Write \/ Read \/ PassResult

Spec == Init /\ [][Next]_vars

NextSizes == Write

SpecSizes == InitSizes /\ [][NextSizes]_vars

---------------------------------------------------------------------------
(* What the claims speak of, read off the file and the objects directly.   *)

HasDirective(f, key) == \E i \in 1..Len(f) : f[i].key = key

IsData(line) == line.key = "NUM"

IsComment(line) == line.key = "#"

DataRowsOf(f) == SelectSeq(f, IsData)

(* The argument of the last line of f with this key.                       *)
Declared(f, key) ==
    LET at == {i \in 1..Len(f) : f[i].key = key}
    IN  f[CHOOSE i \in at : \A j \in at : j <= i].args

ParsedComments(f) ==
    LET cl == SelectSeq(f, IsComment) IN [i \in 1..Len(cl) |-> Strip(cl[i].args)]

ParsedTitle(f, nm) ==
    IF HasDirective(f, "TITLE") THEN Unquote(Join(Split(Declared(f, "TITLE"))))
    ELSE NormaliseStem(nm)

Cube(n) == n * n * n

(* The triple at grid index (r, g, b) of a cube table.                     *)
Cell(G, r, g, b) == <<At(G, <<r, g, b, 0>>), At(G, <<r, g, b, 1>>), At(G, <<r, g, b, 2>>)>>

Close(a, b, d) == Abs(a - b) <= Pow(10, ScalarDigits - d)

AllClose(A, B, d) ==
    /\ A.shape = B.shape
    /\ \A i \in 1..Len(A.data) : Close(A.data[i], B.data[i], d)

Holds(A, d) == \A i \in 1..Len(A.data) : A.data[i] % Pow(10, ScalarDigits - d) = 0

Rectilinear(D) ==
    /\ D.shape = <<2, 3>>
    /\ D.data[1] # D.data[4]
    /\ D.data = <<D.data[1], D.data[1], D.data[1], D.data[4], D.data[4], D.data[4]>>

Trimmed(c) == c = Strip(c)

ReadBack == wstat = "ok" /\ fresh

Repeat(x, n) == [i \in 1..n |-> x]

---------------------------------------------------------------------------
(* C1: a read that returns gives a standalone LUT2D when only LUT_1D_SIZE  *)
(* occurs in the file, a standalone LUT3D when only LUT_3D_SIZE occurs,    *)
(* each named by the title and carrying every parsed comment, and a        *)
(* (LUT2D, LUT3D) sequence when both occur, wherever the directives stand  *)
(* among the data rows.                                                    *)
C1_KindFollowsDirectives ==
    (fresh /\ ret.status = "returned") =>
        LET h1 == HasDirective(file, "LUT_1D_SIZE")
            h3 == HasDirective(file, "LUT_3D_SIZE")
            v == ret.value
        IN  /\ (h1 /\ ~h3) => /\ v.kind = "LUT2D"
                              /\ v.name = ParsedTitle(file, stem)
                              /\ v.comments = ParsedComments(file)
            /\ (h3 /\ ~h1) => /\ v.kind = "LUT3D"
                              /\ v.name = ParsedTitle(file, stem)
                              /\ v.comments = ParsedComments(file)
            /\ (h1 /\ h3) => /\ v.kind = "LUTSequence"
                             /\ Len(v.stages) = 2
                             /\ v.stages[1].kind = "LUT2D"
                             /\ v.stages[2].kind = "LUT3D"

C1_Witness ==
    /\ fresh /\ ret.status = "returned" /\ origin = "caller"
    /\ ret.value.kind = "LUT2D"
    /\ Len(ret.value.comments) >= 2
    /\ \E i, j \in 1..Len(file) :
          i < j /\ file[i].key = "NUM" /\ file[j].key = "LUT_1D_SIZE"

(* C2 as stated: the written cube rows are the cells r fastest, and the    *)
(* read of the output gives a grid equal to G at every index.              *)
C2_ExactGrid ==
    (ReadBack /\ argBefore.kind = "LUT3D") =>
        /\ ret.status = "returned"
        /\ ret.value.kind = "LUT3D"
        /\ ret.value.table = argBefore.table

(* C2, amended: write emits exactly S^3 cube rows, row i the cell          *)
(* G[i mod S][(i div S) mod S][i div S^2] at the written precision, and    *)
(* the read of the output gives an S x S x S grid whose scalars are within *)
(* 10^-decimals of G's at every index, equal where G's scalars have no     *)
(* more than decimals fractional digits.                                   *)
C2_AxisMajorOrder ==
    (wstat = "ok" /\ argBefore.kind = "LUT3D") =>
        LET G == argBefore.table
            S == G.shape[1]
            rows == DataRowsOf(file)
        IN  /\ Len(rows) = Cube(S)
            /\ \A i \in 0..(Cube(S) - 1) :
                  rows[i + 1].args =
                      format_array(Cell(G, i % S, (i \div S) % S, i \div (S * S)), decimals)
            /\ fresh =>
                  /\ ret.status = "returned"
                  /\ ret.value.kind = "LUT3D"
                  /\ AllClose(ret.value.table, G, decimals)
                  /\ Holds(G, decimals) => ret.value.table = G

C2_Witness ==
    /\ ReadBack /\ argBefore.kind = "LUT3D"
    /\ argBefore.table.shape[1] >= 2
    /\ ret.status = "returned"
    /\ ret.value.table # argBefore.table

(* C3 as stated: the read of a written shaper has the same rows, the same  *)
(* domain and the same comments in the same order.                         *)
C3_SameComments ==
    (ReadBack /\ argBefore.kind = "LUT2D" /\ Rectilinear(argBefore.domain)) =>
        /\ ret.status = "returned"
        /\ ret.value.kind = "LUT2D"
        /\ AllClose(ret.value.table, argBefore.table, decimals)
        /\ AllClose(ret.value.domain, argBefore.domain, decimals)
        /\ ret.value.comments = argBefore.comments

(* C3, amended: the read of a written shaper with domain                   *)
(* [[a, a, a], [b, b, b]], a # b, is a standalone shaper with the same     *)
(* rows in the same order and the same domain, scalars within              *)
(* 10^-decimals, and as many comments in the same order, each without its  *)
(* leading and trailing blanks: the same comments where none has any.      *)
C3_ShaperRoundTrip ==
    (ReadBack /\ argBefore.kind = "LUT2D" /\ Rectilinear(argBefore.domain)) =>
        /\ ret.status = "returned"
        /\ ret.value.kind = "LUT2D"
        /\ AllClose(ret.value.table, argBefore.table, decimals)
        /\ AllClose(ret.value.domain, argBefore.domain, decimals)
        /\ Len(ret.value.comments) = Len(argBefore.comments)
        /\ \A i \in 1..Len(argBefore.comments) :
              ret.value.comments[i] = Strip(argBefore.comments[i])
        /\ (\A i \in 1..Len(argBefore.comments) : Trimmed(argBefore.comments[i]))
              => ret.value.comments = argBefore.comments

C3_Witness ==
    /\ ReadBack /\ argBefore.kind = "LUT2D" /\ origin = "caller"
    /\ argBefore.domain = Broadcast(0 - (One \div 10), 3 * One)
    /\ Len(argBefore.comments) = 2
    /\ argBefore.comments[1] # argBefore.comments[2]
    /\ \A i \in 1..2 : Trimmed(argBefore.comments[i])
    /\ argBefore.table.shape[1] >= 3
    /\ ret.status = "returned"
    /\ ret.value.comments = argBefore.comments

(* C4 as stated: the read of the written form of a sequence that a read    *)
(* returned equals that sequence in every field.                           *)
C4_FixedPoint ==
    (ReadBack /\ origin = "read" /\ argBefore.kind = "LUTSequence") =>
        ret = Returned(argBefore)

(* C4, amended: for a sequence L that a read returned and the write        *)
(* accepts, the read of the written L is a (shaper, cube) sequence with    *)
(* L's tables and domains, scalars within 10^-decimals, and L's comments   *)
(* on each stage; its stages are named after L's cube stage, that name     *)
(* with its runs of blanks made single followed by " - Shaper" and         *)
(* " - Cube", so the names grow by a suffix with every cycle.              *)
C4_CombinedRoundTrip ==
    (ReadBack /\ origin = "read" /\ argBefore.kind = "LUTSequence") =>
        /\ ret.status = "returned"
        /\ ret.value.kind = "LUTSequence"
        /\ Len(ret.value.stages) = 2
        /\ \A k \in 1..2 :
              /\ ret.value.stages[k].kind = argBefore.stages[k].kind
              /\ AllClose(ret.value.stages[k].table, argBefore.stages[k].table, decimals)
              /\ AllClose(ret.value.stages[k].domain, argBefore.stages[k].domain, decimals)
              /\ ret.value.stages[k].comments = argBefore.stages[k].comments
        /\ LET title == Join(Split(argBefore.stages[2].name))
           IN  /\ ret.value.stages[1].name = title \o ShaperSuffix
               /\ ret.value.stages[2].name = title \o CubeSuffix
               /\ ret.value.stages[2].name # argBefore.stages[2].name

C4_Witness ==
    /\ ReadBack /\ origin = "read" /\ argBefore.kind = "LUTSequence"
    /\ ret.status = "returned"
    /\ Len(argBefore.stages[2].comments) >= 2
    /\ argBefore.stages[1].table.shape[1] >= 2
    /\ argBefore.stages[1].domain # default_domain

(* C5: for a file with LUT_1D_SIZE N, LUT_3D_SIZE S and N + S^3 data rows  *)
(* the read returns a sequence whose shaper table is the first N data rows *)
(* in file order and whose cube grid holds data row N + r + S g + S^2 b at *)
(* index (r, g, b); the stages are named "<title> - Shaper" and            *)
(* "<title> - Cube"; every parsed comment is on the cube stage and none on *)
(* the shaper stage.                                                       *)
C5_CombinedSplit ==
    (/\ fresh
     /\ HasDirective(file, "LUT_1D_SIZE") /\ HasDirective(file, "LUT_3D_SIZE")
     /\ Len(DataRowsOf(file)) =
            Declared(file, "LUT_1D_SIZE")[1] + Cube(Declared(file, "LUT_3D_SIZE")[1]))
    => LET N == Declared(file, "LUT_1D_SIZE")[1]
           S == Declared(file, "LUT_3D_SIZE")[1]
           rows == DataRowsOf(file)
           v == ret.value
       IN  /\ ret.status = "returned"
           /\ v.kind = "LUTSequence"
           /\ v.stages[1].table.shape = <<N, 3>>
           /\ \A i \in 1..N : Row(v.stages[1].table, i - 1) = parse_array(rows[i].args)
           /\ v.stages[2].table.shape = <<S, S, S, 3>>
           /\ \A r, g, b \in 0..(S - 1) :
                 Cell(v.stages[2].table, r, g, b)
                     = parse_array(rows[N + 1 + r + S * g + S * S * b].args)
           /\ v.stages[1].name = ParsedTitle(file, stem) \o ShaperSuffix
           /\ v.stages[2].name = ParsedTitle(file, stem) \o CubeSuffix
           /\ v.stages[2].comments = ParsedComments(file)
           /\ v.stages[1].comments = << >>

C5_Witness ==
    /\ fresh /\ origin = "caller" /\ wstat = "none"
    /\ HasDirective(file, "LUT_1D_SIZE") /\ HasDirective(file, "LUT_3D_SIZE")
    /\ Declared(file, "LUT_1D_SIZE")[1] >= 2
    /\ Declared(file, "LUT_3D_SIZE")[1] >= 2
    /\ Len(DataRowsOf(file)) =
           Declared(file, "LUT_1D_SIZE")[1] + Cube(Declared(file, "LUT_3D_SIZE")[1])
    /\ ret.status = "returned"
    /\ Len(ret.value.stages[2].comments) >= 2

(* The stages of an accepted LUT that are really there, as the caller      *)
(* passed them.                                                            *)
Accepted(L) ==
    \/ L.kind \in {"LUT1D", "LUT2D", "LUT3D"}
    \/ /\ L.kind = "LUTSequence"
       /\ Len(L.stages) = 2
       /\ L.stages[1].kind \in {"LUT1D", "LUT2D"}
       /\ L.stages[2].kind = "LUT3D"

ShaperOf(L) ==
    IF L.kind = "LUTSequence" THEN <<L.stages[1]>>
    ELSE IF L.kind \in {"LUT1D", "LUT2D"} THEN <<L>> ELSE << >>

CubeOf(L) ==
    IF L.kind = "LUTSequence" THEN <<L.stages[2]>>
    ELSE IF L.kind = "LUT3D" THEN <<L>> ELSE << >>

TwoValued(D) == Cardinality(Elements(D)) = 2

(* The i-th row, from 1, of a shaper stage's table: a 1-D table gives its  *)
(* value on each channel.                                                  *)
ShaperRow(L, i) ==
    IF L.kind = "LUT1D" THEN <<At(L.table, <<i - 1>>), At(L.table, <<i - 1>>), At(L.table, <<i - 1>>)>>
    ELSE <<At(L.table, <<i - 1, 0>>), At(L.table, <<i - 1, 1>>), At(L.table, <<i - 1, 2>>)>>

(* C6: a write fails when a present shaper stage's size is outside         *)
(* [2, 65536] or a present cube stage's size is outside [2, 256]; with     *)
(* every present stage's size inside its range, the bounds included, and   *)
(* its domain of two values, it succeeds, whatever the size of the         *)
(* placeholder of an absent stage.                                         *)
C6_SizeBounds ==
    (wstat # "none" /\ Accepted(argBefore)) =>
        LET sh == ShaperOf(argBefore)
            cu == CubeOf(argBefore)
            shaperIn == \A i \in 1..Len(sh) :
                           2 <= sh[i].table.shape[1] /\ sh[i].table.shape[1] <= 65536
            cubeIn == \A i \in 1..Len(cu) :
                           2 <= cu[i].table.shape[1] /\ cu[i].table.shape[1] <= 256
            domains == /\ \A i \in 1..Len(sh) : TwoValued(sh[i].domain)
                       /\ \A i \in 1..Len(cu) : TwoValued(cu[i].domain)
        IN  /\ ~(shaperIn /\ cubeIn) => wstat = "AssertionError"
            /\ (shaperIn /\ cubeIn /\ domains) => wstat = "ok"

C6_Witness ==
    /\ wstat = "ok"
    /\ argBefore.kind = "LUT3D"
    /\ argBefore.table.shape[1] = 256
    /\ Size(NewLUT2D) < 2

(* C7: a read of a file with neither LUT_1D_SIZE nor LUT_3D_SIZE never     *)
(* completes normally.                                                     *)
C7_NeitherDirectiveFails ==
    (fresh /\ ~HasDirective(file, "LUT_1D_SIZE") /\ ~HasDirective(file, "LUT_3D_SIZE"))
        => ret.status # "returned"

(* C8: a read of a file whose number of data rows differs from what its    *)
(* declared sizes require (N, S^3, or N + S^3) fails.                      *)
C8_RowCountMismatchFails ==
    LET h1 == HasDirective(file, "LUT_1D_SIZE")
        h3 == HasDirective(file, "LUT_3D_SIZE")
        required == (IF h1 THEN Declared(file, "LUT_1D_SIZE")[1] ELSE 0)
                    + (IF h3 THEN Cube(Declared(file, "LUT_3D_SIZE")[1]) ELSE 0)
    IN  (fresh /\ (h1 \/ h3) /\ Len(DataRowsOf(file)) # required)
            => ret.status # "returned"

(* C9: after a write has returned or failed the caller's LUT object is as  *)
(* it was before the call, each stage of a sequence of the same type.      *)
C9_InputUntouched == wstat # "none" => arg = argBefore

(* C10: a written file is the TITLE line, the shaper stage's comments in   *)
(* their order and then the cube stage's, the LUT_1D_SIZE line (and range  *)
(* line for a domain other than the default) before the LUT_3D_SIZE line   *)
(* (and range line), the shaper rows in table order and one blank line,    *)
(* then the cube rows; an absent stage contributes nothing, and nothing    *)
(* but data rows and that blank line follows the first data row.           *)
C10_SectionOrder ==
    wstat = "ok" =>
        LET sh == ShaperOf(argBefore)
            cu == CubeOf(argBefore)
            sc == IF Len(sh) = 1 THEN sh[1].comments ELSE << >>
            cc == IF Len(cu) = 1 THEN cu[1].comments ELSE << >>
            N == IF Len(sh) = 1 THEN sh[1].table.shape[1] ELSE 0
            S == IF Len(cu) = 1 THEN cu[1].table.shape[1] ELSE 0
            shDefault == sh[1].domain \in {default_domain, [shape |-> <<2>>, data |-> <<0, One>>]}
            keys == [i \in 1..Len(file) |-> file[i].key]
            head == 1 + Len(sc) + Len(cc)
            dirs == (IF Len(sh) = 1
                     THEN <<"LUT_1D_SIZE">>
                          \o (IF shDefault THEN << >> ELSE <<"LUT_1D_INPUT_RANGE">>)
                     ELSE << >>)
                    \o (IF Len(cu) = 1
                        THEN <<"LUT_3D_SIZE">>
                             \o (IF cu[1].domain = default_domain THEN << >>
                                 ELSE <<"LUT_3D_INPUT_RANGE">>)
                        ELSE << >>)
        IN  /\ keys = <<"TITLE">> \o Repeat("#", Len(sc) + Len(cc)) \o dirs
                      \o (IF Len(sh) = 1 THEN Repeat("NUM", N) \o <<"">> ELSE << >>)
                      \o (IF Len(cu) = 1 THEN Repeat("NUM", Cube(S)) ELSE << >>)
            /\ \A i \in 1..Len(sc) : file[1 + i].args = <<SP>> \o sc[i]
            /\ \A i \in 1..Len(cc) : file[1 + Len(sc) + i].args = <<SP>> \o cc[i]
            /\ \A i \in 1..N :
                  file[head + Len(dirs) + i].args = format_array(ShaperRow(sh[1], i), decimals)

C10_Witness ==
    /\ wstat = "ok" /\ origin = "caller"
    /\ argBefore.kind = "LUTSequence"
    /\ Len(argBefore.stages[1].comments) >= 2
    /\ Len(argBefore.stages[2].comments) >= 2
    /\ argBefore.stages[1].table.shape[1] >= 2

=============================================================================
